---- MODULE Spec2Model ----
(***************************************************************************)
(* Model of app.py (Polaris Backend): a CSV file is loaded into the SQLite *)
(* table polaris_products, rows are created / updated / deleted through    *)
(* add_product / update_product / delete_product, and every mutation is    *)
(* appended to the table operations by log_operation.                      *)
(*                                                                         *)
(* The database file is the record db:                                     *)
(*   db.tables     names present in sqlite_master                          *)
(*   db.rows       rows of polaris_products in rowid order                 *)
(*   db.uniqueIdx  whether idx_polaris_products_id exists                  *)
(*   db.ops        rows of operations in rowid order                       *)
(* A data row is [id |-> n, f |-> [Columns -> value]].  A log row carries  *)
(* its AUTOINCREMENT id, action, target_table and target_id; the two       *)
(* timestamp strings and the metadata text are not represented.            *)
(***************************************************************************)
EXTENDS Integers, Sequences, FiniteSets, Bags, TLC

\* ---------- CONFIG ----------
DATA_TABLE == "polaris_products"
OPS_TABLE == "operations"

\* ---------- bounds of the model ----------
MaxRows == 2          \* longest CSV (data rows)
MaxId == 3            \* largest id a create may assign
MaxLog == 2           \* longest operations log

Columns == {"Title", "PredictedVisibility"}
Values == {"A", "B"}
NULL == "NULL"
Sessions == {"s1", "s2"}

\* a CSV source: header (column names after strip) and data rows
CsvRecords == {[c \in Columns |-> v] : v \in Values}
\* neighbouring data rows differ, so that their order shows in the table
CsvRows == {rows \in UNION {[1..n -> CsvRecords] : n \in 0..MaxRows} :
               \A i \in 1..(Len(rows) - 1) : rows[i] # rows[i + 1]}
Csvs == [header : {Columns}, rows : CsvRows]
            \cup {[header |-> Columns \cup {"id"}, rows |-> <<>>]}

\* caller-supplied field maps: update_fields and product_dict
FieldMaps == UNION {[S -> {"B"}] : S \in SUBSET Columns}
ProductDicts == {<<>>} \cup CsvRecords

\* inputs of the two-session model
ConcCsvs == {csv \in Csvs : /\ "id" \notin csv.header
                            /\ Len(csv.rows) <= 1
                            /\ \A i \in 1..Len(csv.rows) : csv.rows[i]["Title"] = "A"}
ConcDicts == {[c \in Columns |-> "B"]}
ConcUpdates == {[c \in {"Title"} |-> "B"]}

\* inputs of the render-cycle model: files the user or the disk can hold,
\* and the field maps the forms build (every column is named)
UiCsvs == {csv \in Csvs : \A i \in 1..Len(csv.rows) : csv.rows[i]["Title"] = "A"}
UiDicts == {[c \in Columns |-> "B"]}
Filters == {"All"} \cup Values
LIST_LIMIT == 1000

Ids(rows) == {rows[i].id : i \in 1..Len(rows)}

IdsUnique(rows) == \A i, j \in 1..Len(rows) : rows[i].id = rows[j].id => i = j

EmptyDb == [tables |-> {}, rows |-> <<>>, uniqueIdx |-> FALSE, ops |-> <<>>]

\* ---------- DB UTILITIES ----------
table_exists(d, table_name) == table_name \in d.tables

ensure_ops_table(d) == [d EXCEPT !.tables = @ \cup {OPS_TABLE}]

\* result of a call: raised (an exception left the function), the database
\* afterwards, and the returned value
Raised(d) == [raised |-> TRUE, db |-> d, val |-> 0]
Returned(d, v) == [raised |-> FALSE, db |-> d, val |-> v]

\* INSERT INTO operations ...; commit.  fault: the store rejects the write.
log_operation(d, action, target_table, target_id, fault) ==
    IF fault \/ ~table_exists(d, OPS_TABLE)
    THEN Raised(d)
    ELSE Returned([d EXCEPT !.ops = Append(@, [id |-> Len(@) + 1,
                                               action |-> action,
                                               target_table |-> target_table,
                                               target_id |-> target_id])], 0)

\* df.reset_index; df.insert(0, "id", df.index + 1)
WithIdColumn(csvrows) == [i \in 1..Len(csvrows) |-> [id |-> i, f |-> csvrows[i]]]

\* variant of to_sql_replace: if_exists="append" keeps the old rows
to_sql_append(d, df) ==
    [d EXCEPT !.tables = @ \cup {DATA_TABLE}, !.rows = @ \o df]

\* df.to_sql(DATA_TABLE, conn, if_exists="replace"): drop (with its indexes)
\* and recreate the table from the frame
to_sql_replace(d, df) ==
    [d EXCEPT !.tables = @ \cup {DATA_TABLE}, !.rows = df, !.uniqueIdx = FALSE]

\* CREATE UNIQUE INDEX IF NOT EXISTS ... ON polaris_products(id), inside
\* try/except: a failure (duplicate ids) is swallowed
create_unique_index(d) ==
    IF IdsUnique(d.rows) THEN [d EXCEPT !.uniqueIdx = TRUE] ELSE d

\* variant of load_csv_to_db: the load records itself in the log
load_csv_to_db_logged(d, csv) ==
    IF "id" \in csv.header
    THEN Raised(d)
    ELSE LET df == WithIdColumn(csv.rows)
             loaded == ensure_ops_table(create_unique_index(to_sql_replace(d, df)))
         IN Returned(log_operation(loaded, "LOAD", DATA_TABLE, 0, FALSE).db, Len(df))

load_csv_to_db(d, csv) ==
    IF "id" \in csv.header
    THEN Raised(d)      \* df.insert refuses a column that already exists
    ELSE LET df == WithIdColumn(csv.rows)
         IN Returned(ensure_ops_table(create_unique_index(to_sql_replace(d, df))),
                     Len(df))

\* ORDER BY id
RECURSIVE SortById(_)
SortById(rows) ==
    IF Len(rows) = 0 THEN <<>>
    ELSE LET m == CHOOSE i \in 1..Len(rows) :
                    \A j \in 1..Len(rows) :
                        rows[i].id < rows[j].id \/ (rows[i].id = rows[j].id /\ i <= j)
             rest == [k \in 1..(Len(rows) - 1) |-> IF k < m THEN rows[k] ELSE rows[k + 1]]
         IN <<rows[m]>> \o SortById(rest)

Matches(row, where_clause) ==
    where_clause = "All" \/ row.f["PredictedVisibility"] = where_clause

get_table_data(d, limit, where_clause) ==
    IF ~table_exists(d, DATA_TABLE) THEN <<>>
    ELSE LET sel == SortById(SelectSeq(d.rows, LAMBDA r : Matches(r, where_clause)))
         IN SubSeq(sel, 1, IF Len(sel) < limit THEN Len(sel) ELSE limit)

\* variant of NextId: ids start at 0 on an empty table
NextId_ZeroBased(rows) ==
    IF Len(rows) = 0 THEN 0
    ELSE (CHOOSE m \in Ids(rows) : \A k \in Ids(rows) : k <= m) + 1

\* SELECT MAX(id); next_id = 1 if r[0] is None else r[0] + 1
NextId(rows) ==
    IF Len(rows) = 0 THEN 1
    ELSE (CHOOSE m \in Ids(rows) : \A k \in Ids(rows) : k <= m) + 1

\* the row an INSERT with the given columns stores: absent columns are NULL
RowOf(id, product_dict) ==
    [id |-> id,
     f |-> [c \in Columns |-> IF c \in DOMAIN product_dict THEN product_dict[c] ELSE NULL]]

\* variant of sql_insert: INSERT OR IGNORE drops a row whose id exists
sql_insert_or_ignore(d, row) ==
    IF ~table_exists(d, DATA_TABLE) THEN Raised(d)
    ELSE IF d.uniqueIdx /\ row.id \in Ids(d.rows) THEN Returned(d, row.id)
    ELSE Returned([d EXCEPT !.rows = Append(@, row)], row.id)

\* INSERT INTO polaris_products ...; conn.commit()
sql_insert(d, row) ==
    IF ~table_exists(d, DATA_TABLE) THEN Raised(d)
    ELSE IF d.uniqueIdx /\ row.id \in Ids(d.rows) THEN Raised(d)  \* IntegrityError
    ELSE Returned([d EXCEPT !.rows = Append(@, row)], row.id)

\* variant of sql_update: the WHERE clause is missing
sql_update_no_where(d, product_id, update_fields) ==
    IF ~table_exists(d, DATA_TABLE) \/ DOMAIN update_fields = {}
    THEN Raised(d)
    ELSE Returned([d EXCEPT !.rows =
                     [i \in 1..Len(@) |->
                        [@[i] EXCEPT !.f = [c \in Columns |->
                            IF c \in DOMAIN update_fields
                            THEN update_fields[c] ELSE @[c]]]]], 1)

\* UPDATE polaris_products SET ... WHERE id = ?; conn.commit()
sql_update(d, product_id, update_fields) ==
    IF ~table_exists(d, DATA_TABLE) \/ DOMAIN update_fields = {}
    THEN Raised(d)      \* no such table / empty SET clause
    ELSE Returned([d EXCEPT !.rows =
                     [i \in 1..Len(@) |->
                        IF @[i].id = product_id
                        THEN [@[i] EXCEPT !.f = [c \in Columns |->
                                  IF c \in DOMAIN update_fields
                                  THEN update_fields[c] ELSE @[c]]]
                        ELSE @[i]]], 1)

\* variant of sql_delete: WHERE id <= ?
sql_delete_upto(d, product_id) ==
    IF ~table_exists(d, DATA_TABLE) THEN Raised(d)
    ELSE Returned([d EXCEPT !.rows = SelectSeq(@, LAMBDA r : r.id > product_id)], 1)

\* DELETE FROM polaris_products WHERE id = ?; conn.commit()
sql_delete(d, product_id) ==
    IF ~table_exists(d, DATA_TABLE) THEN Raised(d)
    ELSE Returned([d EXCEPT !.rows = SelectSeq(@, LAMBDA r : r.id # product_id)], 1)

add_product(d, product_dict, fault) ==
    IF ~table_exists(d, DATA_TABLE) THEN Raised(d)   \* SELECT MAX(id) fails
    ELSE LET next_id == NextId(d.rows)
             ins == sql_insert(d, RowOf(next_id, product_dict))
         IN IF ins.raised THEN ins
            ELSE LET lg == log_operation(ins.db, "CREATE", DATA_TABLE, next_id, fault)
                 IN IF lg.raised THEN lg ELSE Returned(lg.db, next_id)

\* variant of update_product: the log entry is written only when a row matched
update_product_log_on_match(d, product_id, update_fields, fault) ==
    LET upd == sql_update(d, product_id, update_fields)
    IN IF upd.raised THEN upd
       ELSE IF product_id \notin Ids(d.rows) THEN Returned(upd.db, 1)
       ELSE LET lg == log_operation(upd.db, "UPDATE", DATA_TABLE, product_id, fault)
            IN IF lg.raised THEN lg ELSE Returned(lg.db, 1)

update_product(d, product_id, update_fields, fault) ==
    LET upd == sql_update(d, product_id, update_fields)
    IN IF upd.raised THEN upd
       ELSE LET lg == log_operation(upd.db, "UPDATE", DATA_TABLE, product_id, fault)
            IN IF lg.raised THEN lg ELSE Returned(lg.db, 1)

delete_product(d, product_id, fault) ==
    LET del == sql_delete(d, product_id)
    IN IF del.raised THEN del
       ELSE LET lg == log_operation(del.db, "DELETE", DATA_TABLE, product_id, fault)
            IN IF lg.raised THEN lg ELSE Returned(lg.db, 1)

\* ---------- state ----------
VARIABLES
    db,             \* the database file polaris_data.db
    ret,            \* the last call made on the single connection and its outcome
    assigned,       \* history: ids given to a record since the last load
    pc,             \* per session: position inside the call in progress
    local,          \* per session: the call's arguments and next_id
    committed,      \* history: bag of the data mutations committed
    ui              \* presentation layer: widget state and the last render

vars == <<db, ret, assigned, pc, local, committed, ui>>

NoRet == [op |-> "none", val |-> 0, raised |-> FALSE]
Outcome(op, r) == [op |-> op, val |-> r.val, raised |-> r.raised]

IdleLocal == [op |-> "none", id |-> 0, fields |-> <<>>, next_id |-> 0, outcome |-> "none"]
\* uploaded_file and local_csv are <<>> (None / no file polaris.csv) or <<csv>>
NoUi == [uploaded_file |-> <<>>, local_csv |-> <<>>, vis_filter |-> "All",
         event |-> "none", sidebar |-> "none", products_df |-> <<>>,
         submitted |-> "none", target |-> 0, fields |-> <<>>, message |-> "none",
         rerun |-> FALSE]

Init ==
    /\ db = EmptyDb
    /\ ret = NoRet
    /\ assigned = {}
    /\ pc = [s \in Sessions |-> "idle"]
    /\ local = [s \in Sessions |-> IdleLocal]
    /\ committed = EmptyBag
    /\ ui = NoUi

\* ---------- calls on one connection, each run to completion ----------
LoadCsv(csv) ==
    LET r == load_csv_to_db(db, csv)
    IN /\ db' = r.db
       /\ ret' = Outcome("load", r)
       /\ assigned' = IF r.raised THEN assigned ELSE Ids(r.db.rows)
       /\ UNCHANGED <<pc, local, committed, ui>>

AddProduct(product_dict) ==
    LET r == add_product(db, product_dict, FALSE)
    IN /\ Len(db.ops) < MaxLog
       /\ NextId(db.rows) <= MaxId
       /\ db' = r.db
       /\ ret' = Outcome("create", r)
       /\ assigned' = assigned \cup Ids(r.db.rows)
       /\ UNCHANGED <<pc, local, committed, ui>>

UpdateProduct(product_id, update_fields) ==
    LET r == update_product(db, product_id, update_fields, FALSE)
    IN /\ Len(db.ops) < MaxLog
       /\ db' = r.db
       /\ ret' = Outcome("update", r)
       /\ UNCHANGED <<assigned, pc, local, committed, ui>>

DeleteProduct(product_id) ==
    LET r == delete_product(db, product_id, FALSE)
    IN /\ Len(db.ops) < MaxLog
       /\ db' = r.db
       /\ ret' = Outcome("delete", r)
       /\ UNCHANGED <<assigned, pc, local, committed, ui>>

Next ==
    \/ \E csv \in Csvs : LoadCsv(csv)
    \/ \E product_dict \in ProductDicts : AddProduct(product_dict)
    \/ \E product_id \in 1..MaxId, update_fields \in FieldMaps :
          UpdateProduct(product_id, update_fields)
    \/ \E product_id \in 1..MaxId : DeleteProduct(product_id)

Spec == Init /\ [][Next]_vars

\* ---------- two sessions, each with its own connection ----------
\* A call is a sequence of statements; every statement commits on its own
\* and the statements of different sessions interleave.
\*   load_csv_to_db : to_sql replace | CREATE UNIQUE INDEX, ensure_ops_table
\*   add_product    : SELECT MAX(id) | INSERT, commit | log_operation | return
\*   update_product : UPDATE, commit | log_operation | return
\*   delete_product : DELETE, commit | log_operation | return
\* local[s].outcome is "returned", "raised" (an exception left the call) or
\* "stopped" (the process stopped inside the call).
InFlight == {s \in Sessions : pc[s] # "idle"}

MayBegin(s) ==
    /\ pc[s] = "idle"
    /\ BagCardinality(committed) + Cardinality(InFlight) < MaxLog

ActionOf(op) ==
    CASE op = "create" -> "CREATE"
      [] op = "update" -> "UPDATE"
      [] OTHER -> "DELETE"

Finish(s, outcome) ==
    /\ pc' = [pc EXCEPT ![s] = "idle"]
    /\ local' = [local EXCEPT ![s].outcome = outcome, ![s].fields = <<>>]

\* load_csv_to_db, lines 50-58: the frame replaces the table (to_sql commits)
LoadToSql(s, csv) ==
    /\ MayBegin(s)
    /\ "id" \notin csv.header
    /\ db' = to_sql_replace(db, WithIdColumn(csv.rows))
    /\ local' = [local EXCEPT ![s] = [op |-> "load", id |-> 0, fields |-> <<>>,
                                      next_id |-> 0, outcome |-> "none"]]
    /\ pc' = [pc EXCEPT ![s] = "index"]
    /\ UNCHANGED <<ret, assigned, committed, ui>>

\* load_csv_to_db, lines 60-68: the unique index, the operations table
LoadIndex(s) ==
    /\ pc[s] = "index"
    /\ db' = ensure_ops_table(create_unique_index(db))
    /\ Finish(s, "returned")
    /\ UNCHANGED <<ret, assigned, committed, ui>>

\* add_product, lines 81-85: read the maximum id
AddSelectMax(s, product_dict) ==
    /\ MayBegin(s)
    /\ IF ~table_exists(db, DATA_TABLE)
       THEN /\ local' = [local EXCEPT ![s] = [op |-> "create", id |-> 0, fields |-> <<>>,
                                              next_id |-> 0, outcome |-> "raised"]]
            /\ pc' = pc
       ELSE /\ NextId(db.rows) <= MaxId
            /\ local' = [local EXCEPT ![s] = [op |-> "create", id |-> NextId(db.rows),
                                              fields |-> product_dict,
                                              next_id |-> NextId(db.rows),
                                              outcome |-> "none"]]
            /\ pc' = [pc EXCEPT ![s] = "insert"]
    /\ UNCHANGED <<db, ret, assigned, committed, ui>>

\* variant of AddInsert: the CREATE entry is written before the insert
AddInsert_LogFirst(s) ==
    /\ pc[s] = "insert"
    /\ LET lg == log_operation(db, "CREATE", DATA_TABLE, local[s].next_id, FALSE)
           ins == sql_insert(lg.db, RowOf(local[s].next_id, local[s].fields))
       IN IF ins.raised
          THEN /\ db' = lg.db
               /\ Finish(s, "raised")
               /\ UNCHANGED committed
          ELSE /\ db' = ins.db
               /\ committed' = committed (+) SetToBag({[action |-> "CREATE",
                                                        target_id |-> local[s].next_id]})
               /\ Finish(s, "returned")
    /\ UNCHANGED <<ret, assigned, ui>>

\* add_product, lines 86-91: insert the row with the id read before; commit
AddInsert(s) ==
    /\ pc[s] = "insert"
    /\ LET ins == sql_insert(db, RowOf(local[s].next_id, local[s].fields))
       IN IF ins.raised
          THEN /\ Finish(s, "raised")
               /\ UNCHANGED <<db, committed>>
          ELSE /\ db' = ins.db
               /\ committed' = committed (+) SetToBag({[action |-> "CREATE",
                                                  target_id |-> local[s].next_id]})
               /\ pc' = [pc EXCEPT ![s] = "log"]
               /\ local' = [local EXCEPT ![s].fields = <<>>]
    /\ UNCHANGED <<ret, assigned, ui>>

\* update_product, lines 96-99
UpdateExec(s, product_id, update_fields) ==
    /\ MayBegin(s)
    /\ LET upd == sql_update(db, product_id, update_fields)
       IN IF upd.raised
          THEN /\ local' = [local EXCEPT ![s] = [op |-> "update", id |-> product_id,
                                                 fields |-> <<>>, next_id |-> 0,
                                                 outcome |-> "raised"]]
               /\ UNCHANGED <<db, committed, pc>>
          ELSE /\ db' = upd.db
               /\ committed' = committed (+) SetToBag({[action |-> "UPDATE",
                                                  target_id |-> product_id]})
               /\ local' = [local EXCEPT ![s] = [op |-> "update", id |-> product_id,
                                                 fields |-> <<>>, next_id |-> 0,
                                                 outcome |-> "none"]]
               /\ pc' = [pc EXCEPT ![s] = "log"]
    /\ UNCHANGED <<ret, assigned, ui>>

\* delete_product, lines 104-105
DeleteExec(s, product_id) ==
    /\ MayBegin(s)
    /\ LET del == sql_delete(db, product_id)
       IN IF del.raised
          THEN /\ local' = [local EXCEPT ![s] = [op |-> "delete", id |-> product_id,
                                                 fields |-> <<>>, next_id |-> 0,
                                                 outcome |-> "raised"]]
               /\ UNCHANGED <<db, committed, pc>>
          ELSE /\ db' = del.db
               /\ committed' = committed (+) SetToBag({[action |-> "DELETE",
                                                  target_id |-> product_id]})
               /\ local' = [local EXCEPT ![s] = [op |-> "delete", id |-> product_id,
                                                 fields |-> <<>>, next_id |-> 0,
                                                 outcome |-> "none"]]
               /\ pc' = [pc EXCEPT ![s] = "log"]
    /\ UNCHANGED <<ret, assigned, ui>>

\* the log_operation call that ends add / update / delete, and the return
LogStep(s, fault) ==
    /\ pc[s] = "log"
    /\ LET lg == log_operation(db, ActionOf(local[s].op), DATA_TABLE, local[s].id, fault)
       IN /\ db' = lg.db
          /\ Finish(s, IF lg.raised THEN "raised" ELSE "returned")
    /\ UNCHANGED <<ret, assigned, committed, ui>>

\* the process stops between the data write and the audit write; nothing
\* is undone
Stop(s) ==
    /\ pc[s] = "log"
    /\ Finish(s, "stopped")
    /\ UNCHANGED <<db, ret, assigned, committed, ui>>

NextConc ==
    \/ \E s \in Sessions, csv \in ConcCsvs : LoadToSql(s, csv)
    \/ \E s \in Sessions : LoadIndex(s)
    \/ \E s \in Sessions, product_dict \in ConcDicts : AddSelectMax(s, product_dict)
    \/ \E s \in Sessions : AddInsert(s)
    \/ \E s \in Sessions, product_id \in 1..MaxId, update_fields \in ConcUpdates :
          UpdateExec(s, product_id, update_fields)
    \/ \E s \in Sessions, product_id \in 1..MaxId : DeleteExec(s, product_id)
    \/ \E s \in Sessions, fault \in BOOLEAN : LogStep(s, fault)
    \/ \E s \in Sessions : Stop(s)

SpecConc == Init /\ [][NextConc]_vars

\* ---------- STREAMLIT UI: one action per run of the script ----------
\* lines 118-158: the sidebar load block, the connection, the list
\* consumed: the upload buffer was read by an earlier run and is handed out
\* again at its end, so pd.read_csv raises (whether a run gets a fresh
\* buffer is the framework's choice); a path is read afresh every time
ScriptTop(d, uploaded, local_csv, vis_filter, consumed) ==
    LET uploaded_file == IF uploaded = <<>> /\ local_csv # <<>> THEN local_csv ELSE uploaded
        ld == IF uploaded_file = <<>> THEN Returned(d, 0)
              ELSE IF consumed /\ uploaded # <<>> THEN Raised(d)
              ELSE load_csv_to_db(d, uploaded_file[1])
        conn == ensure_ops_table(ld.db)
    IN [db |-> conn,
        sidebar |-> IF uploaded_file = <<>> THEN "none"
                    ELSE IF ld.raised THEN "error" ELSE "success",
        products_df |-> get_table_data(conn, LIST_LIMIT, vis_filter)]

\* a run with no form submitted (first page view, Refresh, or a widget change)
Shown(top, event, uploaded, vis_filter) ==
    /\ db' = top.db
    /\ ui' = [ui EXCEPT !.uploaded_file = uploaded, !.vis_filter = vis_filter,
                        !.event = event, !.sidebar = top.sidebar,
                        !.products_df = top.products_df,
                        !.submitted = "none", !.target = 0, !.fields = <<>>,
                        !.message = "none", !.rerun = FALSE]
    /\ UNCHANGED <<ret, assigned, pc, local, committed>>

\* a run in which a form handler called the repository: r is the call's
\* result; st.experimental_rerun() follows a call that returned
Handled(top, event, r, target, fields) ==
    /\ Len(top.db.ops) < MaxLog
    /\ db' = r.db
    /\ ui' = [ui EXCEPT !.event = event, !.sidebar = top.sidebar,
                        !.products_df = top.products_df,
                        !.submitted = event, !.target = target, !.fields = fields,
                        !.message = IF r.raised THEN "error" ELSE "success",
                        !.rerun = ~r.raised]
    /\ UNCHANGED <<ret, assigned, pc, local, committed>>

Refresh(consumed) ==
    /\ ~ui.rerun
    /\ Shown(ScriptTop(db, ui.uploaded_file, ui.local_csv, ui.vis_filter, consumed),
             "refresh", ui.uploaded_file, ui.vis_filter)

SelectFile(csv) ==
    /\ ~ui.rerun
    /\ ui.uploaded_file # <<csv>>
    /\ Shown(ScriptTop(db, <<csv>>, ui.local_csv, ui.vis_filter, FALSE),
             "select_file", <<csv>>, ui.vis_filter)

ClearFile ==
    /\ ~ui.rerun
    /\ ui.uploaded_file # <<>>
    /\ Shown(ScriptTop(db, <<>>, ui.local_csv, ui.vis_filter, FALSE),
             "clear_file", <<>>, ui.vis_filter)

SetFilter(vis_filter, consumed) ==
    /\ ~ui.rerun
    /\ vis_filter # ui.vis_filter
    /\ Shown(ScriptTop(db, ui.uploaded_file, ui.local_csv, vis_filter, consumed),
             "set_filter", ui.uploaded_file, vis_filter)

\* lines 169-195
SubmitAdd(prod, consumed) ==
    /\ ~ui.rerun
    /\ LET top == ScriptTop(db, ui.uploaded_file, ui.local_csv, ui.vis_filter, consumed)
           r == add_product(top.db, prod, FALSE)
       IN /\ table_exists(top.db, DATA_TABLE) => NextId(top.db.rows) <= MaxId
          /\ Handled(top, "add", r, r.val, prod)

\* lines 200-235
SubmitSave(sel_id, updates, consumed) ==
    /\ ~ui.rerun
    /\ LET top == ScriptTop(db, ui.uploaded_file, ui.local_csv, ui.vis_filter, consumed)
       IN /\ sel_id \in Ids(top.products_df)
          /\ Handled(top, "save", update_product(top.db, sel_id, updates, FALSE),
                     sel_id, updates)

\* lines 200-217, 237-243
SubmitDelete(sel_id, consumed) ==
    /\ ~ui.rerun
    /\ LET top == ScriptTop(db, ui.uploaded_file, ui.local_csv, ui.vis_filter, consumed)
       IN /\ sel_id \in Ids(top.products_df)
          /\ Handled(top, "delete", delete_product(top.db, sel_id, FALSE), sel_id, <<>>)

\* the run that st.experimental_rerun() starts: same widget state, no
\* form submitted
Rerun(consumed) ==
    /\ ui.rerun
    /\ LET top == ScriptTop(db, ui.uploaded_file, ui.local_csv, ui.vis_filter, consumed)
       IN /\ db' = top.db
          /\ ui' = [ui EXCEPT !.event = "rerun", !.sidebar = top.sidebar,
                              !.products_df = top.products_df, !.rerun = FALSE]
    /\ UNCHANGED <<ret, assigned, pc, local, committed>>

InitUi ==
    /\ db = EmptyDb
    /\ ret = NoRet
    /\ assigned = {}
    /\ pc = [s \in Sessions |-> "idle"]
    /\ local = [s \in Sessions |-> IdleLocal]
    /\ committed = EmptyBag
    /\ \E f \in {<<>>} \cup {<<csv>> : csv \in UiCsvs} : ui = [NoUi EXCEPT !.local_csv = f]

NextUi ==
    \/ \E consumed \in BOOLEAN : Refresh(consumed)
    \/ \E csv \in UiCsvs : SelectFile(csv)
    \/ ClearFile
    \/ \E vis_filter \in Filters, consumed \in BOOLEAN : SetFilter(vis_filter, consumed)
    \/ \E prod \in UiDicts, consumed \in BOOLEAN : SubmitAdd(prod, consumed)
    \/ \E sel_id \in 1..MaxId, updates \in UiDicts, consumed \in BOOLEAN :
          SubmitSave(sel_id, updates, consumed)
    \/ \E sel_id \in 1..MaxId, consumed \in BOOLEAN : SubmitDelete(sel_id, consumed)
    \/ \E consumed \in BOOLEAN : Rerun(consumed)

SpecUi == InitUi /\ [][NextUi]_vars

\* ---------- properties of the calls on one connection ----------
Last(seq) == seq[Len(seq)]

\* the operations log after the step is the log before it plus one entry
LogGrewBy(action, target_id) ==
    /\ Len(db'.ops) = Len(db.ops) + 1
    /\ SubSeq(db'.ops, 1, Len(db.ops)) = db.ops
    /\ Last(db'.ops).action = action
    /\ Last(db'.ops).target_id = target_id

\* C1: every create, update or delete call that returns (update and delete
\* also when the id matches no record) appends exactly one entry to the
\* operations log, with action CREATE / UPDATE / DELETE and target_id the
\* returned id (create) or the id argument (update, delete); the entries
\* that were there before are unchanged.
C1_OneLogEntryPerCall ==
    [][/\ \A product_dict \in ProductDicts :
            (ret'.op = "create" /\ ~ret'.raised /\ AddProduct(product_dict))
                => LogGrewBy("CREATE", ret'.val)
       /\ \A product_id \in 1..MaxId :
            /\ \A update_fields \in FieldMaps :
                 (ret'.op = "update" /\ ~ret'.raised
                       /\ UpdateProduct(product_id, update_fields))
                     => LogGrewBy("UPDATE", product_id)
            /\ (ret'.op = "delete" /\ ~ret'.raised /\ DeleteProduct(product_id))
                     => LogGrewBy("DELETE", product_id)]_vars

\* an update that returned although its id matched no record, and was logged
C1_Witness ==
    /\ ret.op = "update" /\ ~ret.raised
    /\ Len(db.ops) = 2
    /\ Last(db.ops).action = "UPDATE"
    /\ Last(db.ops).target_id \notin Ids(db.rows)

\* C2: a create that returns on a table whose largest id is M inserts one
\* record with id M+1 and returns M+1 (1 on an empty table); the records
\* that were there before are unchanged.
C2_CreateAssignsMaxPlusOne ==
    [][\A product_dict \in ProductDicts :
         (ret'.op = "create" /\ ~ret'.raised /\ AddProduct(product_dict)) =>
            /\ \A k \in Ids(db.rows) : k < ret'.val
            /\ ret'.val = 1 \/ (ret'.val - 1) \in Ids(db.rows)
            /\ Len(db.rows) = 0 => ret'.val = 1
            /\ Len(db'.rows) = Len(db.rows) + 1
            /\ SubSeq(db'.rows, 1, Len(db.rows)) = db.rows
            /\ Last(db'.rows).id = ret'.val]_vars

\* a create on a non-empty table returned max + 1
C2_Witness ==
    /\ ret.op = "create" /\ ~ret.raised /\ ret.val > 1
    /\ Len(db.rows) > 1 /\ Last(db.rows).id = ret.val

\* C3: an update that returns sets exactly the named fields of the record
\* with the given id and leaves the other fields, the other records and
\* all ids as they were; on an existing table, with at least one field
\* named, an id that matches no record leaves the table unchanged and the
\* call still returns True.
C3_UpdateFrame ==
    [][\A product_id \in 1..MaxId, update_fields \in FieldMaps :
         (ret'.op = "update" /\ UpdateProduct(product_id, update_fields)) =>
            /\ ~ret'.raised =>
                 /\ ret'.val = 1
                 /\ Len(db'.rows) = Len(db.rows)
                 /\ \A i \in 1..Len(db.rows) :
                      /\ db'.rows[i].id = db.rows[i].id
                      /\ \A c \in Columns :
                           db'.rows[i].f[c] =
                              IF db.rows[i].id = product_id /\ c \in DOMAIN update_fields
                              THEN update_fields[c] ELSE db.rows[i].f[c]
            /\ (/\ table_exists(db, DATA_TABLE)
                /\ DOMAIN update_fields # {}
                /\ product_id \notin Ids(db.rows)) =>
                 /\ ~ret'.raised
                 /\ db'.rows = db.rows]_vars

\* an update changed one field of a record and kept a different value in
\* the other field
C3_Witness ==
    /\ ret.op = "update" /\ ~ret.raised
    /\ Len(db.ops) = 1 /\ Last(db.ops).target_id \in Ids(db.rows)
    /\ \E i \in 1..Len(db.rows) :
         /\ db.rows[i].id = Last(db.ops).target_id
         /\ db.rows[i].f["Title"] # db.rows[i].f["PredictedVisibility"]

\* C4: a delete that returns removes the record with the given id and no
\* other (one record less when the id matches); on an existing table an id
\* that matches no record leaves the table unchanged and the call returns.
C4_DeleteExactlyOne ==
    [][\A product_id \in 1..MaxId :
         (ret'.op = "delete" /\ DeleteProduct(product_id)) =>
            /\ ~ret'.raised =>
                 /\ Ids(db'.rows) = Ids(db.rows) \ {product_id}
                 /\ Len(db'.rows) =
                       Len(db.rows) - (IF product_id \in Ids(db.rows) THEN 1 ELSE 0)
                 /\ \A i \in 1..Len(db.rows) :
                       db.rows[i].id # product_id =>
                          \E j \in 1..Len(db'.rows) : db'.rows[j] = db.rows[i]
            /\ (table_exists(db, DATA_TABLE) /\ product_id \notin Ids(db.rows)) =>
                 /\ ~ret'.raised
                 /\ db'.rows = db.rows]_vars

\* a delete removed a record and another record is still there
C4_Witness ==
    /\ ret.op = "delete" /\ ~ret.raised
    /\ Len(db.ops) = 1
    /\ Last(db.ops).target_id \notin Ids(db.rows)
    /\ \E k \in Ids(db.rows) : k > Last(db.ops).target_id

\* C5: a load that returns, from any state, returns the number N of data
\* rows and leaves exactly the N records with ids 1..N in source order;
\* loading the same CSV again gives the same table.
C5_LoadReplaces ==
    [][\A csv \in Csvs :
         (ret'.op = "load" /\ ~ret'.raised /\ LoadCsv(csv)) =>
            /\ ret'.val = Len(csv.rows)
            /\ Len(db'.rows) = Len(csv.rows)
            /\ \A i \in 1..Len(csv.rows) :
                  db'.rows[i].id = i /\ db'.rows[i].f = csv.rows[i]
            /\ load_csv_to_db(db', csv).db.rows = db'.rows]_vars

\* a load of two or more rows over a table that calls had modified
C5_Witness ==
    /\ ret.op = "load" /\ ~ret.raised /\ ret.val >= 2
    /\ Len(db.ops) > 0
    /\ Ids(db.rows) = 1..ret.val

\* C6: ids are unique, and an id returned by create has not been given to
\* any record since the last load.  (Uniqueness holds; add_product does
\* give the id of a deleted record out again.)
C6_UniqueAppendOnly ==
    [][/\ IdsUnique(db'.rows)
       /\ \A product_dict \in ProductDicts :
            (ret'.op = "create" /\ ~ret'.raised /\ AddProduct(product_dict))
                => ret'.val \notin assigned]_vars

\* C9 as stated: every load that returns leaves the log longer than before.
C9_LoadGrowsLog ==
    [][(ret'.op = "load" /\ ~ret'.raised) => Len(db'.ops) > Len(db.ops)]_vars

\* C9, amended: a load never changes the operations log; it only makes
\* sure the table operations exists.
C9_LoadKeepsLog ==
    [][ret'.op = "load"
            => (db'.ops = db.ops /\ (~ret'.raised => table_exists(db', OPS_TABLE)))]_vars

\* a load returned while the log held a DELETE entry
C9_Witness ==
    /\ ret.op = "load" /\ ~ret.raised
    /\ Len(db.ops) > 0 /\ Last(db.ops).action = "DELETE"

\* ---------- properties of the two-session model ----------
LogCopies(e) ==
    Cardinality({i \in 1..Len(db.ops) :
                    db.ops[i].action = e.action /\ db.ops[i].target_id = e.target_id})

\* C7: the log write of create, update and delete comes after the commit
\* of the data mutation and is not atomic with it: the log never holds
\* more entries for a mutation than were committed, and a log write that
\* fails, or a process that stops before it, leaves the committed mutation
\* in the data table and the log without an entry for it.
C7_LogAfterCommit ==
    /\ [](\A i \in 1..Len(db.ops) :
            LET e == [action |-> db.ops[i].action, target_id |-> db.ops[i].target_id]
            IN LogCopies(e) <= CopiesIn(e, committed))
    /\ [][\A s \in Sessions :
            /\ (LogStep(s, TRUE) \/ Stop(s)) =>
                 /\ db' = db
                 /\ pc'[s] = "idle"
                 /\ CopiesIn([action |-> ActionOf(local[s].op), target_id |-> local[s].id],
                             committed') > 0
            /\ LogStep(s, FALSE) => db'.rows = db.rows]_vars

\* a create committed its row, its log write failed, and the row is there
\* with no CREATE entry
C7_Witness ==
    \E s \in Sessions :
        /\ local[s].op = "create" /\ local[s].outcome = "raised"
        /\ local[s].next_id \in Ids(db.rows)
        /\ LogCopies([action |-> "CREATE", target_id |-> local[s].next_id]) = 0
        /\ BagCardinality(committed) > Len(db.ops)

\* C8: when a create inserts an id that another create has inserted since
\* the maximum was read, the table ends with two records of that id, or
\* the insert fails and the create returns no id and writes no log entry.
C8_CollidingCreate ==
    [][\A s \in Sessions :
         (AddInsert(s) /\ local[s].next_id \in Ids(db.rows)) =>
            \/ ~IdsUnique(db'.rows)
            \/ /\ local'[s].outcome = "raised"
               /\ pc'[s] = "idle"
               /\ db' = db]_vars

\* both sessions computed the same next_id; one create returned and was
\* logged, the other raised
C8_Witness ==
    \E s, t \in Sessions :
        /\ s # t
        /\ pc[s] = "idle" /\ pc[t] = "idle"
        /\ local[s].op = "create" /\ local[t].op = "create"
        /\ local[s].next_id = local[t].next_id /\ local[s].next_id > 0
        /\ local[s].outcome = "raised" /\ local[t].outcome = "returned"
        /\ LogCopies([action |-> "CREATE", target_id |-> local[s].next_id]) = 1
        /\ local[s].next_id \in Ids(db.rows)

\* ---------- properties of the render cycle ----------
\* C10: a run in which no new file was selected does not run the load, and
\* the list read by the run that follows a submitted create, update or
\* delete shows the mutation.  (The script loads on every run that has a
\* file, so this does not hold.)
C10_RerunShowsMutation ==
    /\ ui.event = "rerun" => ui.sidebar = "none"
    /\ (ui.event = "rerun" /\ ui.vis_filter = "All") =>
          /\ ui.submitted = "add" =>
                \E i \in 1..Len(ui.products_df) :
                    ui.products_df[i] = RowOf(ui.target, ui.fields)
          /\ ui.submitted = "save" =>
                \E i \in 1..Len(ui.products_df) :
                    /\ ui.products_df[i].id = ui.target
                    /\ \A c \in DOMAIN ui.fields : ui.products_df[i].f[c] = ui.fields[c]
          /\ ui.submitted = "delete" => ui.target \notin Ids(ui.products_df)

====
